---------------------------- MODULE Spec2Model ----------------------------
(***************************************************************************)
(* The NFL data reconciliation scripts as state machines:                  *)
(*   - scripts/player-data/normalize-player-games.py  (the player-game     *)
(*     join: game index, per-record resolution, counters)                  *)
(*   - scripts/importers/import-nfl-spreads.py        (nflverse fill-in)   *)
(*   - scripts/importers/import-nfl-spreadspoke.py    (Spreadspoke index   *)
(*     and fill-in)                                                        *)
(* A Python value that may be None is modelled as a sequence: None is <<>> *)
(* and a present value v is <<v>>.  Scores and betting lines are integers. *)
(***************************************************************************)
EXTENDS Integers, Sequences, FiniteSets, TLC

VARIABLES
    pc,                 \* which script runs and where it stands
    games,              \* the game list loaded from nfl-games-staging.json
    game_by_key,        \* join: key string -> position of the game in games
    results,            \* join: the emitted joined records
    matched,            \* join: counter
    unmatched,          \* join: counter
    unmatched_examples, \* join: sample of unmatched records
    nstats,             \* join: number of statistical records consumed
    stat,               \* join: the statistical record consumed last
    week_str,           \* join: the week string of the last lookup key
    game,               \* join: position of the game resolved last, or None
    twin,               \* join: results and counters of a second run
    ss_index,           \* Spreadspoke: (date, home) -> spread info
    ss_row,             \* Spreadspoke: the CSV row consumed last
    nrows,              \* Spreadspoke: number of CSV rows consumed
    src_index,          \* importers: the source index of the last run
    importer,           \* importers: which importer ran last
    filled,             \* importers: counter of the last run
    already_has,        \* importers: counter of the last run
    not_found,          \* importers: counter of the last run
    dry_run,            \* importers: DRY_RUN of the last run
    written,            \* importers: whether the last run wrote the file back
    nruns,              \* importers: number of runs so far
    calc_home,          \* outcome formulas: home_score
    calc_away,          \* outcome formulas: away_score
    calc_spread,        \* outcome formulas: spread
    calc_total,         \* outcome formulas: over_under
    calc_by,            \* outcome formulas: the importers that computed
    nfl_out,            \* outcome formulas: results of import-nfl-spreads.py
    ss_out              \* outcome formulas: results of import-nfl-spreadspoke.py

vars == <<pc, games, game_by_key, results, matched, unmatched,
          unmatched_examples, nstats, stat, week_str, game, twin,
          ss_index, ss_row, nrows,
          src_index, importer, filled, already_has, not_found, dry_run, written,
          nruns,
          calc_home, calc_away, calc_spread, calc_total, calc_by, nfl_out,
          ss_out>>

joinVars == <<game_by_key, results, matched, unmatched, unmatched_examples,
              nstats, stat, week_str, game, twin>>
ssVars == <<ss_index, ss_row, nrows>>
fillVars == <<src_index, importer, filled, already_has, not_found, dry_run,
              written, nruns>>
calcVars == <<calc_home, calc_away, calc_spread, calc_total, calc_by, nfl_out,
              ss_out>>

---------------------------------------------------------------------------
\* Python values

None == <<>>
Some(v) == <<v>>
Val(o) == o[1]

\* Python truthiness of an optional string / an optional integer.
FalsyStr(o) == o = None \/ o = Some("")
FalsyInt(o) == o = None \/ o = Some(0)

\* dict.get(key) on a dict modelled as a function: None on a miss.
Get(d, k) == IF k \in DOMAIN d THEN Some(d[k]) ELSE None

\* d[k] = v
Put(d, k, v) == (k :> v) @@ d

EmptyDict == <<>>

---------------------------------------------------------------------------
\* Alias tables

TEAM_ABBREV_MAP ==
    [c \in {"ARI", "ATL", "BAL", "BUF", "CAR", "CHI", "CIN", "CLE", "DAL",
            "DEN", "DET", "GB", "HOU", "IND", "JAX", "KC", "LA", "LAC",
            "LAR", "LV", "MIA", "MIN", "NE", "NO", "NYG", "NYJ", "PHI",
            "PIT", "SEA", "SF", "TB", "TEN", "WAS", "OAK", "SD", "STL"} |->
        CASE c = "ARI" -> "Arizona Cardinals"
          [] c = "ATL" -> "Atlanta Falcons"
          [] c = "BAL" -> "Baltimore Ravens"
          [] c = "BUF" -> "Buffalo Bills"
          [] c = "CAR" -> "Carolina Panthers"
          [] c = "CHI" -> "Chicago Bears"
          [] c = "CIN" -> "Cincinnati Bengals"
          [] c = "CLE" -> "Cleveland Browns"
          [] c = "DAL" -> "Dallas Cowboys"
          [] c = "DEN" -> "Denver Broncos"
          [] c = "DET" -> "Detroit Lions"
          [] c = "GB"  -> "Green Bay Packers"
          [] c = "HOU" -> "Houston Texans"
          [] c = "IND" -> "Indianapolis Colts"
          [] c = "JAX" -> "Jacksonville Jaguars"
          [] c = "KC"  -> "Kansas City Chiefs"
          [] c = "LA"  -> "Los Angeles Rams"
          [] c = "LAC" -> "Los Angeles Chargers"
          [] c = "LAR" -> "Los Angeles Rams"
          [] c = "LV"  -> "Las Vegas Raiders"
          [] c = "MIA" -> "Miami Dolphins"
          [] c = "MIN" -> "Minnesota Vikings"
          [] c = "NE"  -> "New England Patriots"
          [] c = "NO"  -> "New Orleans Saints"
          [] c = "NYG" -> "New York Giants"
          [] c = "NYJ" -> "New York Jets"
          [] c = "PHI" -> "Philadelphia Eagles"
          [] c = "PIT" -> "Pittsburgh Steelers"
          [] c = "SEA" -> "Seattle Seahawks"
          [] c = "SF"  -> "San Francisco 49ers"
          [] c = "TB"  -> "Tampa Bay Buccaneers"
          [] c = "TEN" -> "Tennessee Titans"
          [] c = "WAS" -> "Washington Commanders"
          [] c = "OAK" -> "Las Vegas Raiders"
          [] c = "SD"  -> "Los Angeles Chargers"
          [] c = "STL" -> "Los Angeles Rams"]

PLAYOFF_WEEK_MAP ==
    [w \in {18, 19, 20, 21, 22} |->
        CASE w = 18 -> "WildCard"
          [] w = 19 -> "Division"
          [] w = 20 -> "ConfChamp"
          [] w = 21 -> "SuperBowl"
          [] w = 22 -> "SuperBowl"]

---------------------------------------------------------------------------
\* Strings: str.lower() and the substring test `a in b`

UpperLetters == "ABCDEFGHIJKLMNOPQRSTUVWXYZ"
LowerLetters == "abcdefghijklmnopqrstuvwxyz"

LowerChar(c) ==
    IF \E i \in 1..Len(UpperLetters) : SubSeq(UpperLetters, i, i) = c
    THEN LET i == CHOOSE j \in 1..Len(UpperLetters) :
                      SubSeq(UpperLetters, j, j) = c
         IN SubSeq(LowerLetters, i, i)
    ELSE c

RECURSIVE Lower(_)
Lower(s) ==
    IF Len(s) = 0 THEN s
    ELSE LowerChar(SubSeq(s, 1, 1)) \o Lower(SubSeq(s, 2, Len(s)))

\* a in b
Contains(a, b) ==
    \E i \in 1..(Len(b) - Len(a) + 1) : SubSeq(b, i, i + Len(a) - 1) = a


---------------------------------------------------------------------------
\* Bounds and sample inputs of the player-game join

MaxStats == 2
MaxGames == 2

Game(season, week, home, away, date, hs, as, spread, ou, sr, our, hrest, arest) ==
    [season |-> season, week |-> week,
     homeTeamCanonical |-> home, awayTeamCanonical |-> away,
     gameDate |-> date, dayOfWeek |-> Some("Sun"),
     homeScore |-> hs, awayScore |-> as,
     spread |-> spread, overUnder |-> ou,
     spreadResult |-> sr, ouResult |-> our,
     isPlayoff |-> Some(week \in {Some("WildCard"), Some("Division")}),
     isPrimetime |-> Some(FALSE), primetimeSlot |-> None,
     isNeutralSite |-> Some(FALSE),
     temperature |-> Some(60), windMph |-> Some(5),
     weatherCategory |-> Some("CLEAR"),
     homeRestDays |-> hrest, awayRestDays |-> arest,
     homeIsByeWeek |-> Some(FALSE), awayIsByeWeek |-> Some(TRUE)]

\* Games of the staging file the join may be given: a played regular-season
\* game, a played postseason game, a game whose home name differs from the
\* canonical name in case only, a game with no home side, and an unplayed
\* game with no lines that shares week and one team with the first.
JoinGameInputs ==
    { Game(Some(2024), Some("5"), Some("Los Angeles Rams"),
           Some("Buffalo Bills"), Some("2024-10-06"), Some(27), Some(24),
           Some(3), Some(48), Some("COVERED"), Some("OVER"), Some(7), Some(10)),
      Game(Some(2024), Some("Division"), Some("Kansas City Chiefs"),
           Some("Buffalo Bills"), Some("2025-01-19"), Some(20), Some(24),
           Some(-2), Some(44), Some("LOST"), Some("PUSH"), Some(14), Some(6)),
      Game(Some(2024), Some("6"), Some("LOS ANGELES RAMS"),
           Some("Buffalo Bills"), Some("2024-10-13"), Some(10), Some(10),
           Some(-1), Some(40), Some("LOST"), Some("UNDER"), Some(7), Some(7)),
      Game(Some(2024), Some("5"), None,
           Some("Buffalo Bills"), Some("2024-10-07"), Some(3), Some(0),
           Some(1), Some(30), Some("COVERED"), Some("UNDER"), Some(7), Some(7)),
      Game(Some(2024), Some("5"), Some("Buffalo Bills"),
           Some("Miami Dolphins"), None, None, None,
           None, None, None, None, None, None) }

Stat(player_id, season, week, season_type, team, opp) ==
    [player_id |-> player_id, player_display_name |-> Some("A. Player"),
     season |-> season, week |-> week, season_type |-> season_type,
     team |-> team, opponent_team |-> opp]

NoStat == Stat(None, None, None, None, None, None)

\* Statistical records of the feed: home side, away side, alternate code,
\* postseason ordinals (mapped and unmapped), a week reached only through
\* the opponent key, an unknown opponent code, an unknown team code, and
\* records with a missing team, player id or season.
StatInputs ==
    { Stat(Some("p1"), Some(2024), Some(5), Some("REG"), Some("LAR"), Some("BUF")),
      Stat(Some("p2"), Some(2024), Some(5), Some("REG"), Some("BUF"), Some("LA")),
      Stat(Some("p3"), Some(2024), Some(19), Some("POST"), Some("KC"), Some("BUF")),
      Stat(Some("p3"), Some(2024), Some(19), Some("POST"), Some("BUF"), Some("KC")),
      Stat(Some("p1"), Some(2024), Some(6), Some("REG"), Some("LA"), Some("BUF")),
      Stat(Some("p4"), Some(2024), Some(6), Some("REG"), Some("MIA"), Some("BUF")),
      Stat(Some("p1"), Some(2024), Some(23), Some("POST"), Some("LAR"), Some("XXX")),
      Stat(Some("p5"), Some(2024), Some(5), Some("REG"), Some("XXX"), Some("BUF")),
      Stat(Some("p6"), Some(2024), Some(5), Some("REG"), None, Some("BUF")),
      Stat(None, Some(2024), Some(5), Some("REG"), Some("LAR"), None),
      Stat(Some("p1"), None, Some(5), Some("REG"), Some("LAR"), Some("BUF")) }

\* All sequences over S of length at most n.
RECURSIVE SeqsUpTo(_, _)
SeqsUpTo(S, n) ==
    IF n = 0 THEN { <<>> }
    ELSE LET shorter == SeqsUpTo(S, n - 1)
         IN shorter \cup { Append(q, e) : q \in shorter, e \in S }

---------------------------------------------------------------------------
\* normalize-player-games.py: the game index

\* f"{x}" of an optional string / an optional integer
FmtStr(o) == IF o = None THEN "None" ELSE Val(o)
FmtInt(o) == IF o = None THEN "None" ELSE ToString(Val(o))

\* f"{season}-{week}-{team}"
GameKey(season, week, team) ==
    FmtInt(season) \o "-" \o FmtStr(week) \o "-" \o FmtStr(team)

\* IndexGame with the home-view key only.
IndexGame_HomeOnly(idx, gs, i) ==
    LET g == gs[i]
    IN IF FalsyInt(g.season) \/ FalsyStr(g.homeTeamCanonical)
                             \/ FalsyStr(g.awayTeamCanonical)
       THEN idx
       ELSE Put(idx, GameKey(g.season, g.week, g.homeTeamCanonical), i)

\* IndexGame with the away-view key only.
IndexGame_AwayOnly(idx, gs, i) ==
    LET g == gs[i]
    IN IF FalsyInt(g.season) \/ FalsyStr(g.homeTeamCanonical)
                             \/ FalsyStr(g.awayTeamCanonical)
       THEN idx
       ELSE Put(idx, GameKey(g.season, g.week, g.awayTeamCanonical), i)

\* One pass of the loop `for g in games` over game number i.
IndexGame(idx, gs, i) ==
    LET g == gs[i]
    IN IF FalsyInt(g.season) \/ FalsyStr(g.homeTeamCanonical)
                             \/ FalsyStr(g.awayTeamCanonical)
       THEN idx
       ELSE Put(Put(idx, GameKey(g.season, g.week, g.homeTeamCanonical), i),
                GameKey(g.season, g.week, g.awayTeamCanonical), i)

RECURSIVE BuildGameIndex(_, _)
BuildGameIndex(gs, n) ==
    IF n = 0 THEN EmptyDict ELSE IndexGame(BuildGameIndex(gs, n - 1), gs, n)

---------------------------------------------------------------------------
\* normalize-player-games.py: resolution of one statistical record

\* `if not player_id or not season or week is None or not team_abbrev`
MissingFields(st) ==
    FalsyStr(st.player_id) \/ FalsyInt(st.season) \/ st.week = None
        \/ FalsyStr(st.team)

\* TEAM_ABBREV_MAP.get(team_abbrev)
TeamCanonical(st) == Get(TEAM_ABBREV_MAP, FmtStr(st.team))

\* TEAM_ABBREV_MAP.get(opp_abbrev, opp_abbrev)
OppCanonical(st) ==
    IF st.opponent_team # None /\ Val(st.opponent_team) \in DOMAIN TEAM_ABBREV_MAP
    THEN Some(TEAM_ABBREV_MAP[Val(st.opponent_team)])
    ELSE st.opponent_team

\* WeekStr without the postseason labels.
WeekStr_NoMap(st) == ToString(Val(st.week))

\* The week string of the lookup key.
WeekStr(st) ==
    IF st.season_type = Some("POST")
    THEN IF Val(st.week) \in DOMAIN PLAYOFF_WEEK_MAP
         THEN PLAYOFF_WEEK_MAP[Val(st.week)]
         ELSE ToString(Val(st.week))
    ELSE ToString(Val(st.week))

OwnKey(st) == GameKey(st.season, Some(WeekStr(st)), TeamCanonical(st))
OppKey(st) == GameKey(st.season, Some(WeekStr(st)), OppCanonical(st))

\* ResolveGame with the opponent key probed first.
ResolveGame_OppFirst(idx, st) ==
    IF Get(idx, OppKey(st)) # None THEN Get(idx, OppKey(st))
    ELSE Get(idx, OwnKey(st))

\* The position of the game the record resolves to, or None: the own-team
\* key first, the opponent key when it misses.
ResolveGame(idx, st) ==
    IF Get(idx, OwnKey(st)) # None THEN Get(idx, OwnKey(st))
    ELSE Get(idx, OppKey(st))

\* How the side is decided against game g: "exact_home", "exact_away",
\* "fuzzy_home", "fuzzy_away" or "none".
SideTier(g, team_canonical) ==
    LET home_team == FmtStr(g.homeTeamCanonical)
        away_team == FmtStr(g.awayTeamCanonical)
    IN CASE team_canonical = home_team -> "exact_home"
         [] team_canonical # home_team /\ team_canonical = away_team -> "exact_away"
         [] OTHER ->
              IF Contains(Lower(team_canonical), Lower(home_team)) THEN "fuzzy_home"
              ELSE IF Contains(Lower(team_canonical), Lower(away_team)) THEN "fuzzy_away"
              ELSE "none"

\* is_home: Some(TRUE), Some(FALSE) or None
IsHome(g, team_canonical) ==
    LET t == SideTier(g, team_canonical)
    IN IF t \in {"exact_home", "fuzzy_home"} THEN Some(TRUE)
       ELSE IF t \in {"exact_away", "fuzzy_away"} THEN Some(FALSE)
       ELSE None

\* "exact", "fuzzy" or "none" for a record that passed the early checks.
MatchTier(gs, idx, st) ==
    LET pos == ResolveGame(idx, st)
    IN IF pos = None THEN "none"
       ELSE LET t == SideTier(gs[Val(pos)], Val(TeamCanonical(st)))
            IN IF t \in {"exact_home", "exact_away"} THEN "exact"
               ELSE IF t \in {"fuzzy_home", "fuzzy_away"} THEN "fuzzy"
               ELSE "none"

\* `if game and is_home is not None`
IsMatched(gs, idx, st) == MatchTier(gs, idx, st) # "none"

\* GameResult with a tie counted as a loss.
GameResult_TieIsLoss(ts, os) ==
    IF ts # None /\ os # None
    THEN IF Val(ts) > Val(os) THEN Some("W") ELSE Some("L")
    ELSE None

\* gameResult from the team's and the opponent's score
GameResult(ts, os) ==
    IF ts # None /\ os # None
    THEN IF Val(ts) > Val(os) THEN Some("W")
         ELSE IF Val(ts) < Val(os) THEN Some("L")
         ELSE Some("T")
    ELSE None

\* TeamSpread with the home-side value copied for both sides.
TeamSpread_NoFlip(raw_spread, is_home) == raw_spread

\* trimmed["spread"]
TeamSpread(raw_spread, is_home) ==
    IF raw_spread # None
    THEN IF is_home THEN raw_spread ELSE Some(-Val(raw_spread))
    ELSE None

\* MatchedContext with the rest fields of the home side on both branches.
MatchedContext_HomeRest(g, is_home) ==
    LET ts == IF is_home THEN g.homeScore ELSE g.awayScore
        os == IF is_home THEN g.awayScore ELSE g.homeScore
    IN [gameDate |-> g.gameDate, dayOfWeek |-> g.dayOfWeek,
        isHome |-> Some(is_home),
        teamScore |-> ts, opponentScore |-> os,
        gameResult |-> GameResult(ts, os),
        spread |-> TeamSpread(g.spread, is_home),
        overUnder |-> g.overUnder,
        spreadResult |-> g.spreadResult, ouResult |-> g.ouResult,
        isPlayoff |-> g.isPlayoff, isPrimetime |-> g.isPrimetime,
        primetimeSlot |-> g.primetimeSlot,
        isNeutralSite |-> g.isNeutralSite,
        temperature |-> g.temperature, windMph |-> g.windMph,
        weatherCategory |-> g.weatherCategory,
        restDays |-> g.homeRestDays,
        isByeWeek |-> g.homeIsByeWeek]

\* The game-context fields of a matched record.
MatchedContext(g, is_home) ==
    LET ts == IF is_home THEN g.homeScore ELSE g.awayScore
        os == IF is_home THEN g.awayScore ELSE g.homeScore
    IN [gameDate |-> g.gameDate, dayOfWeek |-> g.dayOfWeek,
        isHome |-> Some(is_home),
        teamScore |-> ts, opponentScore |-> os,
        gameResult |-> GameResult(ts, os),
        spread |-> TeamSpread(g.spread, is_home),
        overUnder |-> g.overUnder,
        spreadResult |-> g.spreadResult, ouResult |-> g.ouResult,
        isPlayoff |-> g.isPlayoff, isPrimetime |-> g.isPrimetime,
        primetimeSlot |-> g.primetimeSlot,
        isNeutralSite |-> g.isNeutralSite,
        temperature |-> g.temperature, windMph |-> g.windMph,
        weatherCategory |-> g.weatherCategory,
        restDays |-> IF is_home THEN g.homeRestDays ELSE g.awayRestDays,
        isByeWeek |-> IF is_home THEN g.homeIsByeWeek ELSE g.awayIsByeWeek]

\* The game-context fields of a record with no game.
UnmatchedContext(st) ==
    [gameDate |-> None, dayOfWeek |-> None, isHome |-> None,
     teamScore |-> None, opponentScore |-> None, gameResult |-> None,
     spread |-> None, overUnder |-> None,
     spreadResult |-> None, ouResult |-> None,
     isPlayoff |-> Some(st.season_type = Some("POST")),
     isPrimetime |-> None, primetimeSlot |-> None, isNeutralSite |-> None,
     temperature |-> None, windMph |-> None, weatherCategory |-> None,
     restDays |-> None, isByeWeek |-> None]

\* The joined record appended to results: the statistical record's own
\* fields, the franchise names and the game context.
JoinedRecord(gs, idx, st) ==
    [stat |-> st,
     teamCanonical |-> TeamCanonical(st),
     opponentCanonical |-> OppCanonical(st),
     context |->
        IF IsMatched(gs, idx, st)
        THEN LET g == gs[Val(ResolveGame(idx, st))]
             IN MatchedContext(g, Val(IsHome(g, Val(TeamCanonical(st)))))
        ELSE UnmatchedContext(st)]

\* The entry appended to unmatched_examples.
Example(st) ==
    <<st.player_display_name, st.team, st.season, st.week, st.season_type>>

\* AppendExample without the test of the length of the list.
AppendExample_NoCap(examples, st) == Append(examples, Example(st))

\* `if len(unmatched_examples) < 10: unmatched_examples.append(...)`
AppendExample(examples, st) ==
    IF Len(examples) < 10 THEN Append(examples, Example(st)) ELSE examples

\* Whether the loop body reaches results.append for the record: both early
\* `continue` statements are passed.
Emitted(st) == ~MissingFields(st) /\ TeamCanonical(st) # None

---------------------------------------------------------------------------
\* normalize-player-games.py: main

\* The index is built from the loaded games.
BuildIndex ==
    /\ pc = "index"
    /\ game_by_key' = BuildGameIndex(games, Len(games))
    /\ pc' = "join"
    /\ UNCHANGED <<games, results, matched, unmatched, unmatched_examples,
                   nstats, stat, week_str, game, twin>>
    /\ UNCHANGED <<ssVars, fillVars, calcVars>>

\* results, matched, unmatched and unmatched_examples of a run of the loop.
Run(res, m, u, ex) ==
    [results |-> res, matched |-> m, unmatched |-> u,
     unmatched_examples |-> ex]

\* JoinStep with the record dropped once a record has been unmatched.
JoinStep_Feedback(st, gs, idx, run) ==
    IF ~Emitted(st) \/ run.unmatched >= 1
    THEN [run EXCEPT !.unmatched = @ + 1]
    ELSE IF IsMatched(gs, idx, st)
         THEN [run EXCEPT !.results = Append(@, JoinedRecord(gs, idx, st)),
                          !.matched = @ + 1]
         ELSE [run EXCEPT !.results = Append(@, JoinedRecord(gs, idx, st)),
                          !.unmatched = @ + 1,
                          !.unmatched_examples = AppendExample(@, st)]

\* JoinStep with no count for a record that fails an early check.
JoinStep_DropUncounted(st, gs, idx, run) ==
    IF ~Emitted(st)
    THEN run
    ELSE IF IsMatched(gs, idx, st)
         THEN [run EXCEPT !.results = Append(@, JoinedRecord(gs, idx, st)),
                          !.matched = @ + 1]
         ELSE [run EXCEPT !.results = Append(@, JoinedRecord(gs, idx, st)),
                          !.unmatched = @ + 1,
                          !.unmatched_examples = AppendExample(@, st)]

\* What one pass of the loop body over record st does to results and to
\* the counters.
JoinStep(st, gs, idx, run) ==
    IF ~Emitted(st)
    THEN [run EXCEPT !.unmatched = @ + 1]
    ELSE IF IsMatched(gs, idx, st)
         THEN [run EXCEPT !.results = Append(@, JoinedRecord(gs, idx, st)),
                          !.matched = @ + 1]
         ELSE [run EXCEPT !.results = Append(@, JoinedRecord(gs, idx, st)),
                          !.unmatched = @ + 1,
                          !.unmatched_examples = AppendExample(@, st)]

\* One pass of `for i, stat in enumerate(stats)` over the next record st.
JoinBody(st) ==
    /\ stat' = st
    /\ nstats' = nstats + 1
    /\ IF ~Emitted(st)
       THEN UNCHANGED <<week_str, game>>
       ELSE /\ week_str' = Some(WeekStr(st))
            /\ game' = ResolveGame(game_by_key, st)
    /\ LET run == JoinStep(st, games, game_by_key,
                           Run(results, matched, unmatched,
                               unmatched_examples))
       IN /\ results' = run.results
          /\ matched' = run.matched
          /\ unmatched' = run.unmatched
          /\ unmatched_examples' = run.unmatched_examples

JoinRecord ==
    /\ pc = "join"
    /\ nstats < MaxStats
    /\ \E st \in StatInputs : JoinBody(st)
    /\ UNCHANGED <<pc, games, game_by_key, twin>>
    /\ UNCHANGED <<ssVars, fillVars, calcVars>>

\* A long feed over one game: records of a side of that game and records
\* of a team that did not play it.
MaxSampleStats == 12

SampleGames ==
    << Game(Some(2024), Some("5"), Some("Los Angeles Rams"),
            Some("Buffalo Bills"), Some("2024-10-06"), Some(27), Some(24),
            Some(3), Some(48), Some("COVERED"), Some("OVER"), Some(7), Some(10)) >>

SampleStatInputs ==
    { Stat(Some("p1"), Some(2024), Some(5), Some("REG"), Some("LAR"), Some("BUF")),
      Stat(Some("p4"), Some(2024), Some(5), Some("REG"), Some("MIA"), Some("NYJ")) }

JoinSampleRecord ==
    /\ pc = "join"
    /\ nstats < MaxSampleStats
    /\ \E st \in SampleStatInputs : JoinBody(st)
    /\ UNCHANGED <<pc, games, game_by_key, twin>>
    /\ UNCHANGED <<ssVars, fillVars, calcVars>>

\* A postseason: the games of two rounds and the records of the weeks
\* around them.
PostGameInputs ==
    { Game(Some(2024), Some("Division"), Some("Kansas City Chiefs"),
           Some("Buffalo Bills"), Some("2025-01-19"), Some(20), Some(24),
           Some(-2), Some(44), Some("LOST"), Some("PUSH"), Some(14), Some(6)),
      Game(Some(2024), Some("SuperBowl"), Some("Philadelphia Eagles"),
           Some("Kansas City Chiefs"), Some("2025-02-09"), Some(40), Some(22),
           Some(-1), Some(48), Some("COVERED"), Some("OVER"), Some(14), Some(14)) }

PostStatInputs ==
    { Stat(Some("p3"), Some(2024), Some(19), Some("POST"), Some("KC"), Some("BUF")),
      Stat(Some("p3"), Some(2024), Some(20), Some("POST"), Some("KC"), Some("BUF")),
      Stat(Some("p3"), Some(2024), Some(21), Some("POST"), Some("KC"), Some("BUF")),
      Stat(Some("p3"), Some(2024), Some(22), Some("POST"), Some("KC"), Some("PHI")),
      Stat(Some("p7"), Some(2024), Some(22), Some("POST"), Some("PHI"), Some("KC")) }

JoinPostRecord ==
    /\ pc = "join"
    /\ nstats < MaxStats
    /\ \E st \in PostStatInputs : JoinBody(st)
    /\ UNCHANGED <<pc, games, game_by_key, twin>>
    /\ UNCHANGED <<ssVars, fillVars, calcVars>>

\* Two runs over the same indexes consume the same record: the run of
\* the join variables and the second run, whose counters may differ.
JoinBoth ==
    /\ pc = "join"
    /\ nstats < MaxStats
    /\ \E st \in StatInputs :
          /\ JoinBody(st)
          /\ twin' = JoinStep(st, games, game_by_key, twin)
    /\ UNCHANGED <<pc, games, game_by_key>>
    /\ UNCHANGED <<ssVars, fillVars, calcVars>>

\* The feed is exhausted: the summary is printed and results written.
JoinSummary ==
    /\ pc = "join"
    /\ pc' = "done"
    /\ UNCHANGED <<games, joinVars, ssVars, fillVars, calcVars>>

---------------------------------------------------------------------------
\* import-nfl-spreadspoke.py: alias tables

SPREADSPOKE_ABBREV_MAP ==
    [c \in {"ARI", "ATL", "BAL", "BUF", "CAR", "CHI", "CIN", "CLE",
            "DAL", "DEN", "DET", "GB", "IND", "JAX", "KC", "LAC", "LAR",
            "MIA", "MIN", "NE", "NO", "NYG", "NYJ", "OAK", "PHI", "PIT",
            "SD", "SEA", "SF", "STL", "TB", "TEN", "WAS"} |->
        CASE c = "ARI" -> "Arizona Cardinals"
          [] c = "ATL" -> "Atlanta Falcons"
          [] c = "BAL" -> "Baltimore Ravens"
          [] c = "BUF" -> "Buffalo Bills"
          [] c = "CAR" -> "Carolina Panthers"
          [] c = "CHI" -> "Chicago Bears"
          [] c = "CIN" -> "Cincinnati Bengals"
          [] c = "CLE" -> "Cleveland Browns"
          [] c = "DAL" -> "Dallas Cowboys"
          [] c = "DEN" -> "Denver Broncos"
          [] c = "DET" -> "Detroit Lions"
          [] c = "GB" -> "Green Bay Packers"
          [] c = "IND" -> "Indianapolis Colts"
          [] c = "JAX" -> "Jacksonville Jaguars"
          [] c = "KC" -> "Kansas City Chiefs"
          [] c = "LAC" -> "Los Angeles Chargers"
          [] c = "LAR" -> "Los Angeles Rams"
          [] c = "MIA" -> "Miami Dolphins"
          [] c = "MIN" -> "Minnesota Vikings"
          [] c = "NE" -> "New England Patriots"
          [] c = "NO" -> "New Orleans Saints"
          [] c = "NYG" -> "New York Giants"
          [] c = "NYJ" -> "New York Jets"
          [] c = "OAK" -> "Las Vegas Raiders"
          [] c = "PHI" -> "Philadelphia Eagles"
          [] c = "PIT" -> "Pittsburgh Steelers"
          [] c = "SD" -> "Los Angeles Chargers"
          [] c = "SEA" -> "Seattle Seahawks"
          [] c = "SF" -> "San Francisco 49ers"
          [] c = "STL" -> "Los Angeles Rams"
          [] c = "TB" -> "Tampa Bay Buccaneers"
          [] c = "TEN" -> "Tennessee Titans"
          [] c = "WAS" -> "Washington Commanders"]

SPREADSPOKE_NAME_TO_CANONICAL ==
    [n \in {"Arizona Cardinals", "Atlanta Falcons", "Baltimore Ravens",
            "Buffalo Bills", "Carolina Panthers", "Chicago Bears",
            "Cincinnati Bengals", "Cleveland Browns", "Dallas Cowboys",
            "Denver Broncos", "Detroit Lions", "Green Bay Packers",
            "Houston Texans", "Indianapolis Colts",
            "Jacksonville Jaguars", "Kansas City Chiefs",
            "Los Angeles Rams", "Los Angeles Chargers",
            "Las Vegas Raiders", "Miami Dolphins", "Minnesota Vikings",
            "New England Patriots", "New Orleans Saints",
            "New York Giants", "New York Jets", "Philadelphia Eagles",
            "Pittsburgh Steelers", "San Francisco 49ers",
            "Seattle Seahawks", "Tampa Bay Buccaneers",
            "Tennessee Titans", "Washington Commanders",
            "Baltimore Colts", "Houston Oilers", "Los Angeles Raiders",
            "Oakland Raiders", "Phoenix Cardinals", "San Diego Chargers",
            "St. Louis Cardinals", "St. Louis Rams", "Tennessee Oilers",
            "Washington Redskins"} |->
        CASE n = "Arizona Cardinals" -> "Arizona Cardinals"
          [] n = "Atlanta Falcons" -> "Atlanta Falcons"
          [] n = "Baltimore Ravens" -> "Baltimore Ravens"
          [] n = "Buffalo Bills" -> "Buffalo Bills"
          [] n = "Carolina Panthers" -> "Carolina Panthers"
          [] n = "Chicago Bears" -> "Chicago Bears"
          [] n = "Cincinnati Bengals" -> "Cincinnati Bengals"
          [] n = "Cleveland Browns" -> "Cleveland Browns"
          [] n = "Dallas Cowboys" -> "Dallas Cowboys"
          [] n = "Denver Broncos" -> "Denver Broncos"
          [] n = "Detroit Lions" -> "Detroit Lions"
          [] n = "Green Bay Packers" -> "Green Bay Packers"
          [] n = "Houston Texans" -> "Houston Texans"
          [] n = "Indianapolis Colts" -> "Indianapolis Colts"
          [] n = "Jacksonville Jaguars" -> "Jacksonville Jaguars"
          [] n = "Kansas City Chiefs" -> "Kansas City Chiefs"
          [] n = "Los Angeles Rams" -> "Los Angeles Rams"
          [] n = "Los Angeles Chargers" -> "Los Angeles Chargers"
          [] n = "Las Vegas Raiders" -> "Las Vegas Raiders"
          [] n = "Miami Dolphins" -> "Miami Dolphins"
          [] n = "Minnesota Vikings" -> "Minnesota Vikings"
          [] n = "New England Patriots" -> "New England Patriots"
          [] n = "New Orleans Saints" -> "New Orleans Saints"
          [] n = "New York Giants" -> "New York Giants"
          [] n = "New York Jets" -> "New York Jets"
          [] n = "Philadelphia Eagles" -> "Philadelphia Eagles"
          [] n = "Pittsburgh Steelers" -> "Pittsburgh Steelers"
          [] n = "San Francisco 49ers" -> "San Francisco 49ers"
          [] n = "Seattle Seahawks" -> "Seattle Seahawks"
          [] n = "Tampa Bay Buccaneers" -> "Tampa Bay Buccaneers"
          [] n = "Tennessee Titans" -> "Tennessee Titans"
          [] n = "Washington Commanders" -> "Washington Commanders"
          [] n = "Baltimore Colts" -> "Indianapolis Colts"
          [] n = "Houston Oilers" -> "Tennessee Titans"
          [] n = "Los Angeles Raiders" -> "Las Vegas Raiders"
          [] n = "Oakland Raiders" -> "Las Vegas Raiders"
          [] n = "Phoenix Cardinals" -> "Arizona Cardinals"
          [] n = "San Diego Chargers" -> "Los Angeles Chargers"
          [] n = "St. Louis Cardinals" -> "Arizona Cardinals"
          [] n = "St. Louis Rams" -> "Los Angeles Rams"
          [] n = "Tennessee Oilers" -> "Tennessee Titans"
          [] n = "Washington Redskins" -> "Washington Commanders"]

---------------------------------------------------------------------------
\* import-nfl-spreadspoke.py: one CSV row into the index

\* str.strip() for blanks
RECURSIVE Strip(_)
Strip(s) ==
    IF Len(s) > 0 /\ SubSeq(s, 1, 1) = " " THEN Strip(SubSeq(s, 2, Len(s)))
    ELSE IF Len(s) > 0 /\ SubSeq(s, Len(s), Len(s)) = " "
         THEN Strip(SubSeq(s, 1, Len(s) - 1))
    ELSE s

\* datetime.strptime(s, "%m/%d/%Y").strftime("%Y-%m-%d") for a zero-padded
\* date; None stands for the ValueError of any other text.
ParseDate(s) ==
    IF Len(s) = 10 /\ SubSeq(s, 3, 3) = "/" /\ SubSeq(s, 6, 6) = "/"
    THEN Some(SubSeq(s, 7, 10) \o "-" \o SubSeq(s, 1, 2) \o "-" \o SubSeq(s, 4, 5))
    ELSE None

\* A row of the CSV.  spread_favorite and over_under_line are None when the
\* cell is blank and the number float() reads otherwise.
Row(home, away, date, fav, spread_fav, ou) ==
    [team_home |-> home, team_away |-> away, schedule_date |-> date,
     team_favorite_id |-> fav, spread_favorite |-> spread_fav,
     over_under_line |-> ou]

NoRow == Row("", "", "", "", None, None)

\* `r.get("spread_favorite", "").strip()`
HasSpread(row) == row.spread_favorite # None

HomeCanonical(row) == Get(SPREADSPOKE_NAME_TO_CANONICAL, row.team_home)
AwayCanonical(row) == Get(SPREADSPOKE_NAME_TO_CANONICAL, row.team_away)
FavCanonical(row) == Get(SPREADSPOKE_ABBREV_MAP, Strip(row.team_favorite_id))

\* SPREADSPOKE_NAME_TO_CANONICAL.get(name, name)
HistCanonical(name) ==
    IF name \in DOMAIN SPREADSPOKE_NAME_TO_CANONICAL
    THEN SPREADSPOKE_NAME_TO_CANONICAL[name] ELSE name

\* HomeSpread with the home favourite's line passed through like the away
\* favourite's.
HomeSpread_NoNegate(row) ==
    LET fav_id == Strip(row.team_favorite_id)
        spread_fav == Val(row.spread_favorite)
    IN IF fav_id = "PICK" \/ fav_id = "" THEN Some(0)
       ELSE IF FavCanonical(row) = None THEN None
       ELSE IF FavCanonical(row) = HomeCanonical(row) THEN Some(spread_fav)
       ELSE IF FavCanonical(row) = AwayCanonical(row) THEN Some(spread_fav)
       ELSE None

\* HomeSpread with the two sides' signs exchanged.
HomeSpread_Swapped(row) ==
    LET fav_id == Strip(row.team_favorite_id)
        spread_fav == Val(row.spread_favorite)
    IN IF fav_id = "PICK" \/ fav_id = "" THEN Some(0)
       ELSE IF FavCanonical(row) = None THEN None
       ELSE IF FavCanonical(row) = HomeCanonical(row) THEN Some(spread_fav)
       ELSE IF FavCanonical(row) = AwayCanonical(row) THEN Some(-spread_fav)
       ELSE None

\* home_spread of a row that has a home franchise and a date, or None where
\* the loop body runs into `continue`.
HomeSpread(row) ==
    LET fav_id == Strip(row.team_favorite_id)
        spread_fav == Val(row.spread_favorite)
    IN IF fav_id = "PICK" \/ fav_id = "" THEN Some(0)
       ELSE IF FavCanonical(row) = None THEN None
       ELSE IF FavCanonical(row) = HomeCanonical(row) THEN Some(-spread_fav)
       ELSE IF FavCanonical(row) = AwayCanonical(row) THEN Some(spread_fav)
       ELSE IF Val(FavCanonical(row)) = HistCanonical(row.team_home)
            THEN Some(-spread_fav)
       ELSE IF Val(FavCanonical(row)) = HistCanonical(row.team_away)
            THEN Some(spread_fav)
       ELSE None

\* Whether the row reaches `ss_index[key] = ...`.
Indexed(row) ==
    /\ HasSpread(row)
    /\ HomeCanonical(row) # None
    /\ ParseDate(row.schedule_date) # None
    /\ HomeSpread(row) # None

SsKey(row) == <<Val(ParseDate(row.schedule_date)), Val(HomeCanonical(row))>>

SsEntry(row) ==
    [spread |-> Val(HomeSpread(row)), over_under |-> row.over_under_line]

\* One pass of `for row in ss_with_spread` (and of the filter before it).
SsIndexRow(idx, row) ==
    IF Indexed(row) THEN Put(idx, SsKey(row), SsEntry(row)) ELSE idx

RECURSIVE BuildSsIndex(_, _)
BuildSsIndex(rows, n) ==
    IF n = 0 THEN EmptyDict ELSE SsIndexRow(BuildSsIndex(rows, n - 1), rows[n])

---------------------------------------------------------------------------
\* import-nfl-spreads.py: the nflverse index

GAME_TYPE_MAP ==
    [t \in {"WC", "DIV", "CON", "SB"} |->
        CASE t = "WC"  -> "WildCard"
          [] t = "DIV" -> "Division"
          [] t = "CON" -> "ConfChamp"
          [] t = "SB"  -> "SuperBowl"]

\* A row of the nflverse schedule.
SchedRow(season, game_type, week, home_team, spread_line, total_line) ==
    [season |-> season, game_type |-> game_type, week |-> week,
     home_team |-> home_team, spread_line |-> spread_line,
     total_line |-> total_line]

\* One pass of `for row in sched.iter_rows(named=True)`.
NflverseIndexRow(idx, row) ==
    LET home_canonical == Get(TEAM_ABBREV_MAP, row.home_team)
    IN IF home_canonical = None THEN idx
       ELSE IF row.game_type = "REG"
            THEN Put(idx, <<row.season, ToString(row.week), Val(home_canonical)>>,
                     [spread_line |-> row.spread_line,
                      total_line |-> row.total_line])
       ELSE IF row.game_type \in DOMAIN GAME_TYPE_MAP
            THEN Put(idx, <<row.season, GAME_TYPE_MAP[row.game_type],
                            Val(home_canonical)>>,
                     [spread_line |-> row.spread_line,
                      total_line |-> row.total_line])
       ELSE idx

RECURSIVE BuildNflverseIndex(_, _)
BuildNflverseIndex(rows, n) ==
    IF n = 0 THEN EmptyDict
    ELSE NflverseIndexRow(BuildNflverseIndex(rows, n - 1), rows[n])

---------------------------------------------------------------------------
\* Outcome formulas of the two importers

\* calculate_spread_result with `not x` in place of `x is None`.
calculate_spread_result_Falsy(home_score, away_score, spread) ==
    IF FalsyInt(spread) \/ FalsyInt(home_score) \/ FalsyInt(away_score)
    THEN None
    ELSE LET margin == (Val(home_score) - Val(away_score)) + Val(spread)
         IN IF margin > 0 THEN Some("COVERED")
            ELSE IF margin < 0 THEN Some("LOST")
            ELSE Some("PUSH")

\* calculate_ou_result with OVER for a total that equals the line.
calculate_ou_result_AtLeast(home_score, away_score, over_under) ==
    IF over_under = None \/ home_score = None \/ away_score = None THEN None
    ELSE LET total == Val(home_score) + Val(away_score)
         IN IF total >= Val(over_under) THEN Some("OVER")
            ELSE Some("UNDER")

\* The Spreadspoke calculate_spread_result with the margin taken from the
\* away side.
ss_calculate_spread_result_AwayMargin(home_score, away_score, spread) ==
    IF spread = None \/ home_score = None \/ away_score = None THEN None
    ELSE LET margin == (Val(away_score) - Val(home_score)) + Val(spread)
         IN IF margin > 0 THEN Some("COVERED")
            ELSE IF margin < 0 THEN Some("LOST")
            ELSE Some("PUSH")

\* import-nfl-spreads.py
calculate_spread_result(home_score, away_score, spread) ==
    IF spread = None \/ home_score = None \/ away_score = None THEN None
    ELSE LET margin == (Val(home_score) - Val(away_score)) + Val(spread)
         IN IF margin > 0 THEN Some("COVERED")
            ELSE IF margin < 0 THEN Some("LOST")
            ELSE Some("PUSH")

calculate_ou_result(home_score, away_score, over_under) ==
    IF over_under = None \/ home_score = None \/ away_score = None THEN None
    ELSE LET total == Val(home_score) + Val(away_score)
         IN IF total > Val(over_under) THEN Some("OVER")
            ELSE IF total < Val(over_under) THEN Some("UNDER")
            ELSE Some("PUSH")

\* import-nfl-spreadspoke.py
ss_calculate_spread_result(home_score, away_score, spread) ==
    IF spread = None \/ home_score = None \/ away_score = None THEN None
    ELSE LET margin == (Val(home_score) - Val(away_score)) + Val(spread)
         IN IF margin > 0 THEN Some("COVERED")
            ELSE IF margin < 0 THEN Some("LOST")
            ELSE Some("PUSH")

ss_calculate_ou_result(home_score, away_score, over_under) ==
    IF over_under = None \/ home_score = None \/ away_score = None THEN None
    ELSE LET total == Val(home_score) + Val(away_score)
         IN IF total > Val(over_under) THEN Some("OVER")
            ELSE IF total < Val(over_under) THEN Some("UNDER")
            ELSE Some("PUSH")

---------------------------------------------------------------------------
\* The fill loops: what one pass of `for game in games` does to a game

\* NflOutcome without the test for a spread that is already there.
NflOutcome_NoAlreadyHas(g, idx) ==
    IF FalsyInt(g.season) \/ FmtStr(g.week) = ""
                          \/ FalsyStr(g.homeTeamCanonical)
    THEN "skipped"
    ELSE LET key == <<Val(g.season), FmtStr(g.week), Val(g.homeTeamCanonical)>>
         IN IF key \in DOMAIN idx /\ idx[key].spread_line # None
            THEN "filled" ELSE "not_found"

\* NflOutcome with a game counted as filled when the source row has no
\* spread.
NflOutcome_FillsWithoutSpread(g, idx) ==
    IF g.spread # None THEN "already_has"
    ELSE IF FalsyInt(g.season) \/ FmtStr(g.week) = ""
                               \/ FalsyStr(g.homeTeamCanonical)
         THEN "skipped"
    ELSE LET key == <<Val(g.season), FmtStr(g.week), Val(g.homeTeamCanonical)>>
         IN IF key \in DOMAIN idx THEN "filled" ELSE "not_found"

\* import-nfl-spreads.py: "already_has", "skipped", "filled" or "not_found"
NflOutcome(g, idx) ==
    IF g.spread # None THEN "already_has"
    ELSE IF FalsyInt(g.season) \/ FmtStr(g.week) = ""
                               \/ FalsyStr(g.homeTeamCanonical)
         THEN "skipped"
    ELSE LET key == <<Val(g.season), FmtStr(g.week), Val(g.homeTeamCanonical)>>
         IN IF key \in DOMAIN idx /\ idx[key].spread_line # None
            THEN "filled" ELSE "not_found"

NflFillGame(g, idx) ==
    IF NflOutcome(g, idx) # "filled" THEN g
    ELSE LET match ==
               idx[<<Val(g.season), FmtStr(g.week), Val(g.homeTeamCanonical)>>]
         IN [g EXCEPT
               !.spread = match.spread_line,
               !.overUnder = match.total_line,
               !.spreadResult =
                   calculate_spread_result(g.homeScore, g.awayScore,
                                           match.spread_line),
               !.ouResult =
                   calculate_ou_result(g.homeScore, g.awayScore,
                                       match.total_line)]

\* import-nfl-spreadspoke.py
SsOutcome(g, idx) ==
    IF g.spread # None THEN "already_has"
    ELSE IF FalsyStr(g.homeTeamCanonical) \/ FalsyStr(g.gameDate)
         THEN "skipped"
    ELSE IF <<Val(g.gameDate), Val(g.homeTeamCanonical)>> \in DOMAIN idx
         THEN "filled" ELSE "not_found"

SsFillGame(g, idx) ==
    IF SsOutcome(g, idx) # "filled" THEN g
    ELSE LET match == idx[<<Val(g.gameDate), Val(g.homeTeamCanonical)>>]
         IN [g EXCEPT
               !.spread = Some(match.spread),
               !.overUnder = match.over_under,
               !.spreadResult =
                   ss_calculate_spread_result(g.homeScore, g.awayScore,
                                              Some(match.spread)),
               !.ouResult =
                   ss_calculate_ou_result(g.homeScore, g.awayScore,
                                          match.over_under)]

\* The number of games of gs with the given outcome.
CountOutcome(outcomes, o) ==
    Cardinality({i \in DOMAIN outcomes : outcomes[i] = o})

---------------------------------------------------------------------------
\* Bounds and sample inputs of the Spreadspoke index

MaxRows == 2

\* Rows of the CSV: home favourite, away favourite under a historical name,
\* PICK, blank favourite, a historical home name with a padded favourite id,
\* a favourite code missing from the abbreviation table, a favourite that is
\* neither side, an unknown home name, an unparsable date, a named favourite
\* on a zero line, a blank spread cell, and an unknown away name.
RowInputs ==
    { Row("Miami Dolphins", "Buffalo Bills", "10/10/2010", "MIA", Some(-3), Some(40)),
      Row("Buffalo Bills", "Oakland Raiders", "10/17/2010", "OAK", Some(-7), None),
      Row("Miami Dolphins", "Buffalo Bills", "10/24/2010", "PICK", Some(0), Some(41)),
      Row("Miami Dolphins", "Buffalo Bills", "10/24/2010", "", Some(-1), Some(38)),
      Row("Baltimore Colts", "Houston Oilers", "10/09/1983", "IND ", Some(-4), Some(37)),
      Row("Houston Texans", "Buffalo Bills", "10/10/2010", "HOU", Some(-3), Some(44)),
      Row("Miami Dolphins", "Buffalo Bills", "10/10/2010", "DAL", Some(-3), Some(44)),
      Row("Boston Patriots", "Buffalo Bills", "10/10/2010", "BUF", Some(-3), Some(44)),
      Row("Miami Dolphins", "Buffalo Bills", "2010-10-10", "MIA", Some(-3), Some(44)),
      Row("Miami Dolphins", "Buffalo Bills", "10/31/2010", "MIA", Some(0), Some(40)),
      Row("Miami Dolphins", "Buffalo Bills", "10/10/2010", "MIA", None, None),
      Row("Miami Dolphins", "Buffalo Bisons", "10/10/2010", "BUF", Some(-3), Some(44)) }

---------------------------------------------------------------------------
\* import-nfl-spreadspoke.py: the index loop

\* One pass over the next CSV row.
SsLoadRow ==
    /\ pc = "ss_index"
    /\ nrows < MaxRows
    /\ \E row \in RowInputs :
          /\ ss_row' = row
          /\ ss_index' = SsIndexRow(ss_index, row)
    /\ nrows' = nrows + 1
    /\ UNCHANGED <<pc, games, joinVars, fillVars, calcVars>>

\* The CSV is exhausted: the size of the index is printed.
SsBuilt ==
    /\ pc = "ss_index"
    /\ pc' = "ss_built"
    /\ UNCHANGED <<games, joinVars, ssVars, fillVars, calcVars>>

---------------------------------------------------------------------------
\* Bounds and sample inputs of the fill-in runs

MaxFillGames == 1
MaxSrcRows == 1
MaxRuns == 2

\* Games of the staging file before a fill-in run: a played game with no
\* lines, a played game with a total but no spread, a played game with a
\* spread but no outcome fields, an unplayed postseason game with no lines,
\* and a game with no home side.
FillGameInputs ==
    { Game(Some(2010), Some("5"), Some("Miami Dolphins"),
           Some("Buffalo Bills"), Some("2010-10-10"), Some(27), Some(24),
           None, None, None, None, Some(7), Some(7)),
      Game(Some(2010), Some("6"), Some("Miami Dolphins"),
           Some("New York Jets"), Some("2010-10-17"), Some(27), Some(24),
           None, Some(45), None, Some("OVER"), Some(7), Some(7)),
      Game(Some(2010), Some("7"), Some("Miami Dolphins"),
           Some("Pittsburgh Steelers"), Some("2010-10-24"), Some(20), Some(17),
           Some(3), None, None, None, Some(7), Some(7)),
      Game(Some(2010), Some("WildCard"), Some("Kansas City Chiefs"),
           Some("Baltimore Ravens"), Some("2011-01-09"), None, None,
           None, None, None, None, Some(7), Some(7)),
      Game(Some(2010), Some("5"), None,
           Some("Buffalo Bills"), Some("2010-10-11"), Some(3), Some(0),
           None, None, None, None, Some(7), Some(7)) }

\* Rows of the nflverse schedule: lines for three of the games, a row with
\* no spread, an unknown home code and a game type that is not imported.
SchedInputs ==
    { SchedRow(2010, "REG", 5, "MIA", Some(3), Some(48)),
      SchedRow(2010, "REG", 6, "MIA", Some(-2), Some(47)),
      SchedRow(2010, "WC", 18, "KC", Some(1), None),
      SchedRow(2010, "REG", 5, "MIA", None, Some(50)),
      SchedRow(2010, "REG", 5, "XXX", Some(3), Some(48)),
      SchedRow(2010, "PRE", 1, "MIA", Some(3), Some(48)) }

\* Rows of the Spreadspoke CSV for the same games.
SsFillRowInputs ==
    { Row("Miami Dolphins", "Buffalo Bills", "10/10/2010", "MIA", Some(-3), Some(40)),
      Row("Miami Dolphins", "New York Jets", "10/17/2010", "NYJ", Some(-7), None),
      Row("Miami Dolphins", "New York Jets", "10/17/2010", "PICK", Some(0), Some(51)),
      Row("Kansas City Chiefs", "Baltimore Ravens", "01/09/2011", "DAL", Some(-3), Some(44)) }

---------------------------------------------------------------------------
\* The importers' main: one run over the staging file

\* The games after the loop of a run of import-nfl-spreads.py.
NflFilledGames(gs, idx) == [i \in DOMAIN gs |-> NflFillGame(gs[i], idx)]
NflOutcomes(gs, idx) == [i \in DOMAIN gs |-> NflOutcome(gs[i], idx)]

\* The games after the loop of a run of import-nfl-spreadspoke.py.
SsFilledGames(gs, idx) == [i \in DOMAIN gs |-> SsFillGame(gs[i], idx)]
SsOutcomes(gs, idx) == [i \in DOMAIN gs |-> SsOutcome(gs[i], idx)]

\* The counters of a run and the write-back: the file is rewritten only
\* when the run is no dry run and filled a game.
FinishRun(name, idx, dry, outcomes, newGames) ==
    /\ importer' = name
    /\ src_index' = idx
    /\ dry_run' = dry
    /\ filled' = CountOutcome(outcomes, "filled")
    /\ already_has' = CountOutcome(outcomes, "already_has")
    /\ not_found' = CountOutcome(outcomes, "not_found")
    /\ written' = (~dry /\ CountOutcome(outcomes, "filled") > 0)
    /\ games' = IF ~dry /\ CountOutcome(outcomes, "filled") > 0
                THEN newGames ELSE games
    /\ nruns' = nruns + 1

RunNflverse ==
    /\ pc = "fill"
    /\ nruns < MaxRuns
    /\ \E rows \in SeqsUpTo(SchedInputs, MaxSrcRows), dry \in BOOLEAN :
          LET idx == BuildNflverseIndex(rows, Len(rows))
          IN FinishRun("nflverse", idx, dry, NflOutcomes(games, idx),
                       NflFilledGames(games, idx))
    /\ UNCHANGED <<pc, joinVars, ssVars, calcVars>>

RunSpreadspoke ==
    /\ pc = "fill"
    /\ nruns < MaxRuns
    /\ \E rows \in SeqsUpTo(SsFillRowInputs, MaxSrcRows), dry \in BOOLEAN :
          LET idx == BuildSsIndex(rows, Len(rows))
          IN FinishRun("spreadspoke", idx, dry, SsOutcomes(games, idx),
                       SsFilledGames(games, idx))
    /\ UNCHANGED <<pc, joinVars, ssVars, calcVars>>

---------------------------------------------------------------------------
\* The outcome formulas applied to one game's scores and lines

MaxScore == 3
MaxLine == 3
MaxTotal == 4

ScoreInputs == { None } \cup { Some(n) : n \in 0..MaxScore }
SpreadInputs == { None } \cup { Some(n) : n \in -MaxLine..MaxLine }
TotalInputs == { None } \cup { Some(n) : n \in 0..MaxTotal }

\* import-nfl-spreads.py computes both outcome fields.
CalcNflverse ==
    /\ pc = "calc"
    /\ "nflverse" \notin calc_by
    /\ nfl_out' =
          [spread_result |->
               calculate_spread_result(calc_home, calc_away, calc_spread),
           ou_result |->
               calculate_ou_result(calc_home, calc_away, calc_total)]
    /\ calc_by' = calc_by \cup {"nflverse"}
    /\ UNCHANGED <<pc, games, joinVars, ssVars, fillVars, calc_home,
                   calc_away, calc_spread, calc_total, ss_out>>

\* import-nfl-spreadspoke.py computes both outcome fields.
CalcSpreadspoke ==
    /\ pc = "calc"
    /\ "spreadspoke" \notin calc_by
    /\ ss_out' =
          [spread_result |->
               ss_calculate_spread_result(calc_home, calc_away, calc_spread),
           ou_result |->
               ss_calculate_ou_result(calc_home, calc_away, calc_total)]
    /\ calc_by' = calc_by \cup {"spreadspoke"}
    /\ UNCHANGED <<pc, games, joinVars, ssVars, fillVars, calc_home,
                   calc_away, calc_spread, calc_total, nfl_out>>

---------------------------------------------------------------------------
\* Specifications

\* What a script that is not running leaves untouched.
JoinIdle ==
    /\ game_by_key = EmptyDict
    /\ results = <<>>
    /\ matched = 0
    /\ unmatched = 0
    /\ unmatched_examples = <<>>
    /\ nstats = 0
    /\ stat = NoStat
    /\ week_str = None
    /\ game = None
    /\ twin = Run(<<>>, 0, 0, <<>>)

SsIdle ==
    /\ ss_index = EmptyDict
    /\ ss_row = NoRow
    /\ nrows = 0

FillIdle ==
    /\ src_index = EmptyDict
    /\ importer = "none"
    /\ filled = 0
    /\ already_has = 0
    /\ not_found = 0
    /\ dry_run = FALSE
    /\ written = FALSE
    /\ nruns = 0

NoOutcome == [spread_result |-> None, ou_result |-> None]

CalcIdle ==
    /\ calc_home = None
    /\ calc_away = None
    /\ calc_spread = None
    /\ calc_total = None
    /\ calc_by = {}
    /\ nfl_out = NoOutcome
    /\ ss_out = NoOutcome

\* normalize-player-games.py: the files are loaded, nothing is indexed yet.
Init ==
    /\ pc = "index"
    /\ games \in SeqsUpTo(JoinGameInputs, MaxGames)
    /\ JoinIdle /\ SsIdle /\ FillIdle /\ CalcIdle

Next == BuildIndex \/ JoinRecord \/ JoinSummary

Spec == Init /\ [][Next]_vars

\* import-nfl-spreadspoke.py: the index loop over the CSV.
SsInit ==
    /\ pc = "ss_index"
    /\ games = <<>>
    /\ JoinIdle /\ SsIdle /\ FillIdle /\ CalcIdle

SsNext == SsLoadRow \/ SsBuilt

SpecSs == SsInit /\ [][SsNext]_vars

\* The two importers run, in any order, over a staging file that holds at
\* least one game.
FillInit ==
    /\ pc = "fill"
    /\ games \in SeqsUpTo(FillGameInputs, MaxFillGames) \ { <<>> }
    /\ JoinIdle /\ SsIdle /\ FillIdle /\ CalcIdle

FillNext == RunNflverse \/ RunSpreadspoke

SpecFill == FillInit /\ [][FillNext]_vars

\* The outcome formulas of both importers on the same scores and lines.
CalcInit ==
    /\ pc = "calc"
    /\ games = <<>>
    /\ JoinIdle /\ SsIdle /\ FillIdle
    /\ calc_home \in ScoreInputs
    /\ calc_away \in ScoreInputs
    /\ calc_spread \in SpreadInputs
    /\ calc_total \in TotalInputs
    /\ calc_by = {}
    /\ nfl_out = NoOutcome
    /\ ss_out = NoOutcome

CalcNext == CalcNflverse \/ CalcSpreadspoke

SpecCalc == CalcInit /\ [][CalcNext]_vars

\* normalize-player-games.py over a feed long enough to fill the sample of
\* unmatched records.
SampleInit ==
    /\ pc = "index"
    /\ games = SampleGames
    /\ JoinIdle /\ SsIdle /\ FillIdle /\ CalcIdle

SampleNext == BuildIndex \/ JoinSampleRecord \/ JoinSummary

SpecSample == SampleInit /\ [][SampleNext]_vars

\* normalize-player-games.py over the games and records of a postseason.
PostInit ==
    /\ pc = "index"
    /\ games \in SeqsUpTo(PostGameInputs, MaxGames)
    /\ JoinIdle /\ SsIdle /\ FillIdle /\ CalcIdle

PostNext == BuildIndex \/ JoinPostRecord \/ JoinSummary

SpecPost == PostInit /\ [][PostNext]_vars

\* Two runs of normalize-player-games.py over the same game list: the
\* first may be ahead of the second by some records.
TwinInit ==
    /\ pc = "index"
    /\ games \in { <<>> } \cup { <<g>> : g \in JoinGameInputs }
    /\ JoinIdle /\ SsIdle /\ FillIdle /\ CalcIdle

TwinNext == BuildIndex \/ JoinRecord \/ JoinBoth \/ JoinSummary

SpecTwin == TwinInit /\ [][TwinNext]_vars

---------------------------------------------------------------------------
\* Properties of the join and of the importers

LineFields == {"spread", "overUnder", "spreadResult", "ouResult"}

\* The record emitted last.
LastResult == results[Len(results)]

\* C1: the join emits exactly one joined record per statistical record:
\* when the loop is over, results is as long as the feed that was consumed,
\* records with missing fields or an unknown team code included.
C1_OneRecordPerInput == pc = "done" => Len(results) = nstats

\* C2: only-fill, per field: a run of an importer that fills a game (a source
\* row matches it) leaves each of its line fields that was non-null before
\* the run with the value it had.
C2_OnlyFillPerField ==
    [][nruns' = nruns + 1 =>
         \A i \in DOMAIN games : \A f \in LineFields :
             (games[i].spread = None /\ games'[i].spread # None
                 /\ games[i][f] # None)
             => games'[i][f] = games[i][f]]_vars

\* C3: idempotence of a fill-in run: a run of the importer that ran last,
\* with the same source index, on the file that run left behind (the run was
\* no dry run, so what it filled is in the file), leaves every game as it is,
\* fills zero games and writes nothing back.
C3_SecondRunFillsNothing ==
    [][(nruns' = nruns + 1 /\ nruns > 0 /\ ~dry_run
            /\ importer' = importer /\ src_index' = src_index)
       => (games' = games /\ filled' = 0 /\ written' = FALSE)]_vars

\* C3 witness: the nflverse importer has run twice over a file whose week-5
\* game the first run filled from the row that is still in the index; the
\* second run found the spread there and filled nothing.
C3_Witness ==
    /\ nruns = 2
    /\ importer = "nflverse"
    /\ <<2010, "5", "Miami Dolphins">> \in DOMAIN src_index
    /\ src_index[<<2010, "5", "Miami Dolphins">>].spread_line = Some(3)
    /\ \E i \in DOMAIN games :
          /\ games[i].week = Some("5")
          /\ games[i].homeTeamCanonical = Some("Miami Dolphins")
          /\ games[i].spread = Some(3)
          /\ games[i].overUnder = Some(48)
    /\ filled = 0
    /\ already_has > 0
    /\ ~written

\* C4: stability across any sequence of runs of the two importers: a line
\* field of a game that is non-null keeps its value in every later state.
C4_FilledFieldsAreStable ==
    [][\A i \in DOMAIN games : \A f \in LineFields :
          games[i][f] # None => games'[i][f] = games[i][f]]_vars


\* The game-context fields of a joined record.
ContextFields ==
    {"gameDate", "dayOfWeek", "isHome", "teamScore", "opponentScore",
     "gameResult", "spread", "overUnder", "spreadResult", "ouResult",
     "isPlayoff", "isPrimetime", "primetimeSlot", "isNeutralSite",
     "temperature", "windMph", "weatherCategory", "restDays", "isByeWeek"}

\* The games the index points to.
IndexedGames == { games[game_by_key[k]] : k \in DOMAIN game_by_key }

\* The context c is taken, field by field, from the one game g: the fields
\* of the game itself are copied, the fields the game has per side are those
\* of the side isHome names, the spread is the game's spread up to the sign
\* and gameResult is there exactly when both scores are.
TakenFromGame(c, g) ==
    /\ c.isHome # None
    /\ c.gameDate = g.gameDate
    /\ c.dayOfWeek = g.dayOfWeek
    /\ c.teamScore = (IF Val(c.isHome) THEN g.homeScore ELSE g.awayScore)
    /\ c.opponentScore = (IF Val(c.isHome) THEN g.awayScore ELSE g.homeScore)
    /\ (c.gameResult # None) <=> (c.teamScore # None /\ c.opponentScore # None)
    /\ (c.spread = None) <=> (g.spread = None)
    /\ c.spread # None => Val(c.spread) \in {Val(g.spread), -Val(g.spread)}
    /\ c.overUnder = g.overUnder
    /\ c.spreadResult = g.spreadResult
    /\ c.ouResult = g.ouResult
    /\ c.isPlayoff = g.isPlayoff
    /\ c.isPrimetime = g.isPrimetime
    /\ c.primetimeSlot = g.primetimeSlot
    /\ c.isNeutralSite = g.isNeutralSite
    /\ c.temperature = g.temperature
    /\ c.windMph = g.windMph
    /\ c.weatherCategory = g.weatherCategory
    /\ c.restDays = (IF Val(c.isHome) THEN g.homeRestDays ELSE g.awayRestDays)
    /\ c.isByeWeek = (IF Val(c.isHome) THEN g.homeIsByeWeek ELSE g.awayIsByeWeek)

MatchedGame == games[Val(ResolveGame(game_by_key, stat))]

\* The record consumed last was emitted with a game.
LastIsMatched ==
    nstats > 0 /\ Emitted(stat) /\ IsMatched(games, game_by_key, stat)

\* C6 as stated: the spread of a matched record is the spread of its game,
\* for the home side and for the away side.
C6_SpreadIsHomePerspective ==
    LastIsMatched => LastResult.context.spread = MatchedGame.spread

\* C6 as amended: the spread of a matched record is the spread of its game
\* when the record is of the home side and its negation when it is of the
\* away side (null when the game has none).
C6_SpreadIsTeamPerspective ==
    LastIsMatched =>
        LET c == LastResult.context
        IN IF MatchedGame.spread = None THEN c.spread = None
           ELSE IF c.isHome = Some(TRUE) THEN c.spread = MatchedGame.spread
           ELSE c.spread = Some(-Val(MatchedGame.spread))

\* C6 witness: an away-side record of a game with a non-zero spread.
C6_Witness ==
    /\ LastIsMatched
    /\ LastResult.context.isHome = Some(FALSE)
    /\ MatchedGame.spread = Some(3)
    /\ LastResult.context.spread = Some(-3)

\* C7: a join whose side was decided by the substring heuristic is counted
\* apart from the exact matches: the pass over such a record does not add
\* to matched.
C7_FuzzyNotCountedAsMatched ==
    [][(nstats' = nstats + 1 /\ Emitted(stat')
            /\ MatchTier(games, game_by_key, stat') = "fuzzy")
       => matched' = matched]_vars


---------------------------------------------------------------------------
\* Properties of the Spreadspoke index

\* The favourite id of a row, blanks stripped.
FavId(row) == Strip(row.team_favorite_id)

\* C8: favourite-id line conversion: the pass over a row that is indexed
\* writes, under the row's key, the home spread -m when the favourite's
\* franchise is the home franchise, m when it is the away franchise and 0
\* when the favourite id is PICK, m being the row's spread_favorite; it
\* writes no value other than -m, m and 0, and the pass over a row that is
\* not indexed leaves the index as it is.
C8_FavouriteLineConversion ==
    [][nrows' = nrows + 1 =>
         LET row == ss_row'
         IN IF Indexed(row)
            THEN LET m == Val(row.spread_favorite)
                 IN \E v \in {-m, m, 0} :
                      /\ ss_index' =
                            Put(ss_index, SsKey(row),
                                [spread |-> v,
                                 over_under |-> row.over_under_line])
                      /\ FavId(row) = "PICK" => v = 0
                      /\ (FavId(row) # "PICK" /\ FavCanonical(row) # None
                            /\ FavCanonical(row) = HomeCanonical(row))
                         => v = -m
                      /\ (FavId(row) # "PICK" /\ FavCanonical(row) # None
                            /\ FavCanonical(row) = AwayCanonical(row))
                         => v = m
            ELSE ss_index' = ss_index]_vars

\* C8 witness: the row consumed last names the away franchise as favourite,
\* by 7, and the index holds -7 under its key.
C8_Witness ==
    /\ nrows > 0
    /\ Indexed(ss_row)
    /\ FavCanonical(ss_row) = AwayCanonical(ss_row)
    /\ ss_row.spread_favorite = Some(-7)
    /\ ss_index[SsKey(ss_row)].spread = -7

\* The favourite id of the row names a franchise that is neither the home
\* nor the away franchise of the row, or names no franchise at all; the row
\* has a spread cell, a known home name and a date.
AmbiguousFavorite(row) ==
    /\ HasSpread(row)
    /\ HomeCanonical(row) # None
    /\ ParseDate(row.schedule_date) # None
    /\ FavId(row) \notin {"PICK", ""}
    /\ \/ FavCanonical(row) = None
       \/ FavCanonical(row) \notin {HomeCanonical(row), AwayCanonical(row)}

\* C9: a row with an ambiguous favourite is counted or reported: the pass
\* over it leaves a trace in what the loop keeps.  The loop keeps the index
\* and nothing else (no error counter, no list of skipped rows), so the
\* trace would have to be there.
C9_AmbiguousFavoriteLeavesTrace ==
    [][(nrows' = nrows + 1 /\ AmbiguousFavorite(ss_row'))
       => ss_index' # ss_index]_vars

\* The franchise the sign of a home spread favours: the home franchise for
\* a positive spread, the away franchise for a negative one, none for zero.
FavouredBySign(row, home_spread) ==
    IF home_spread > 0 THEN HomeCanonical(row)
    ELSE IF home_spread < 0 THEN AwayCanonical(row)
    ELSE None

\* The row consumed last is in the index with a favourite that is not PICK.
LastRowIndexedWithFavourite ==
    nrows > 0 /\ Indexed(ss_row) /\ FavId(ss_row) # "PICK"

\* C10 as stated: for a row indexed with a non-PICK favourite, the side the
\* sign of the indexed home spread favours is the franchise team_favorite_id
\* names.
C10_RoundTrip ==
    LastRowIndexedWithFavourite =>
        FavouredBySign(ss_row, ss_index[SsKey(ss_row)].spread)
            = FavCanonical(ss_row)

\* C10 as amended: the same, for rows whose spread_favorite is negative.
C10_RoundTripOfNegativeLine ==
    (LastRowIndexedWithFavourite /\ Val(ss_row.spread_favorite) < 0) =>
        FavouredBySign(ss_row, ss_index[SsKey(ss_row)].spread)
            = FavCanonical(ss_row)

\* C10 witness: the row consumed last names the home franchise as favourite,
\* by 3, and the index holds the positive spread 3 under its key.
C10_Witness ==
    /\ LastRowIndexedWithFavourite
    /\ FavCanonical(ss_row) = HomeCanonical(ss_row)
    /\ ss_row.spread_favorite = Some(-3)
    /\ ss_index[SsKey(ss_row)].spread = 3


---------------------------------------------------------------------------
\* Properties of the outcome formulas

\* Some input of the outcome formulas is missing.
SpreadInputMissing ==
    calc_home = None \/ calc_away = None \/ calc_spread = None

TotalInputMissing ==
    calc_home = None \/ calc_away = None \/ calc_total = None

\* The spread outcome the margin (home_score - away_score) + spread stands
\* for.
OutcomeOfMargin ==
    LET margin == (Val(calc_home) - Val(calc_away)) + Val(calc_spread)
    IN CASE margin > 0 -> "COVERED"
         [] margin < 0 -> "LOST"
         [] margin = 0 -> "PUSH"

\* The total outcome home_score + away_score stands for against the line.
OutcomeOfTotal ==
    LET total == Val(calc_home) + Val(calc_away)
    IN CASE total > Val(calc_total) -> "OVER"
         [] total < Val(calc_total) -> "UNDER"
         [] total = Val(calc_total) -> "PUSH"

\* The outcome records of the importers that have computed.
Computed ==
    { nfl_out : x \in calc_by \cap {"nflverse"} }
        \cup { ss_out : x \in calc_by \cap {"spreadspoke"} }

\* C11: calculate_spread_result, in either importer, returns null when the
\* home score, the away score or the spread is null, and otherwise COVERED,
\* LOST or PUSH as the margin (home_score - away_score) + spread is above,
\* below or equal to zero.
C11_SpreadResult ==
    \A out \in Computed :
        IF SpreadInputMissing THEN out.spread_result = None
        ELSE out.spread_result = Some(OutcomeOfMargin)

\* Both importers computed a push on a zero spread between scoreless sides.
C11_Witness ==
    /\ calc_by = {"nflverse", "spreadspoke"}
    /\ calc_home = Some(0) /\ calc_away = Some(0) /\ calc_spread = Some(0)
    /\ nfl_out.spread_result = Some("PUSH")
    /\ ss_out.spread_result = Some("PUSH")

\* C12: calculate_ou_result, in either importer, returns null when the home
\* score, the away score or the over/under line is null, and otherwise
\* OVER, UNDER or PUSH as the summed score is above, below or equal to the
\* line.
C12_OuResult ==
    \A out \in Computed :
        IF TotalInputMissing THEN out.ou_result = None
        ELSE out.ou_result = Some(OutcomeOfTotal)

\* Both importers computed a push on a total that equals the line.
C12_Witness ==
    /\ calc_by = {"nflverse", "spreadspoke"}
    /\ ~TotalInputMissing
    /\ Val(calc_home) + Val(calc_away) = Val(calc_total)
    /\ Val(calc_total) > 0
    /\ nfl_out.ou_result = Some("PUSH")
    /\ ss_out.ou_result = Some("PUSH")

\* C13: on the same scores and lines, null inputs included, the functions of
\* import-nfl-spreads.py and those of import-nfl-spreadspoke.py return the
\* same spread outcome and the same total outcome.
C13_SameFormulas ==
    calc_by = {"nflverse", "spreadspoke"} => nfl_out = ss_out

\* Both importers computed on a game the home side won without covering,
\* with a total under the line.
C13_Witness ==
    /\ calc_by = {"nflverse", "spreadspoke"}
    /\ ~SpreadInputMissing /\ ~TotalInputMissing
    /\ Val(calc_home) > Val(calc_away)
    /\ nfl_out.spread_result = Some("LOST")
    /\ nfl_out.ou_result = Some("UNDER")

---------------------------------------------------------------------------
\* Properties of the fill-in runs: outcome fields

\* The game has both scores.
Played(g) == g.homeScore # None /\ g.awayScore # None

\* C14: after a fill-in run that is no dry run, every game with both scores
\* and a spread has a spreadResult, and every game with both scores and an
\* over/under has an ouResult, whether or not the run filled the game.
C14_OutcomesRecomputed ==
    (nruns > 0 /\ ~dry_run) =>
        \A i \in DOMAIN games :
            /\ (Played(games[i]) /\ games[i].spread # None)
                  => games[i].spreadResult # None
            /\ (Played(games[i]) /\ games[i].overUnder # None)
                  => games[i].ouResult # None

---------------------------------------------------------------------------
\* Properties of the game index and of the resolution

\* The game has a season, a home franchise and an away franchise.
Indexable(g) ==
    /\ ~FalsyInt(g.season)
    /\ ~FalsyStr(g.homeTeamCanonical)
    /\ ~FalsyStr(g.awayTeamCanonical)

\* The franchises that play in the game.
Franchises(g) == {g.homeTeamCanonical, g.awayTeamCanonical} \ {None}

\* No two games of the list share a (season, week, franchise) combination.
NoSharedKey ==
    \A i, j \in DOMAIN games :
        i # j => ~(/\ games[i].season = games[j].season
                   /\ games[i].week = games[j].week
                   /\ Franchises(games[i]) \cap Franchises(games[j]) # {})

\* C15: once the index is built, and given that no two games share a
\* (season, week, franchise) combination, every game with a season, a home
\* franchise and an away franchise is found under its home-view key and
\* under its away-view key, and both entries are that game.
C15_IndexedTwice ==
    (pc \in {"join", "done"} /\ NoSharedKey) =>
        \A i \in DOMAIN games :
            Indexable(games[i]) =>
                /\ Get(game_by_key,
                       GameKey(games[i].season, games[i].week,
                               games[i].homeTeamCanonical)) = Some(i)
                /\ Get(game_by_key,
                       GameKey(games[i].season, games[i].week,
                               games[i].awayTeamCanonical)) = Some(i)

\* The index is built from two games that share no key, both with a season
\* and two franchises: it holds four keys.
C15_Witness ==
    /\ pc = "join"
    /\ Len(games) = 2
    /\ NoSharedKey
    /\ Indexable(games[1]) /\ Indexable(games[2])
    /\ Cardinality(DOMAIN game_by_key) = 4

\* The index entries of the two keys of the record consumed last.
OwnEntry == Get(game_by_key, OwnKey(stat))
OppEntry == Get(game_by_key, OppKey(stat))

\* The record consumed last passed both early checks of the loop body.
LastEmitted == nstats > 0 /\ Emitted(stat)

\* C16: the game resolved for a record is the entry of its own-team key
\* whenever that key is in the index, the entry of the opponent key when
\* only the own-team key misses, and none when both miss.
C16_ProbeOrder ==
    LastEmitted =>
        /\ OwnEntry # None => game = OwnEntry
        /\ (OwnEntry = None /\ OppEntry # None) => game = OppEntry
        /\ (OwnEntry = None /\ OppEntry = None) => game = None

\* Both keys of the record are in the index, under different games, and the
\* game of the own-team key is the one resolved.
C16_Witness ==
    /\ LastEmitted
    /\ OwnEntry # None /\ OppEntry # None /\ OwnEntry # OppEntry
    /\ game = OwnEntry

\* C17: the week key of a record is str(week) when the season type is not
\* POST; for a POST record it is the postseason label of the week when the
\* week has one and str(week) otherwise; a key is always built.
C17_WeekKey ==
    LastEmitted =>
        /\ week_str # None
        /\ stat.season_type # Some("POST")
              => week_str = Some(ToString(Val(stat.week)))
        /\ (stat.season_type = Some("POST")
                /\ Val(stat.week) \in DOMAIN PLAYOFF_WEEK_MAP)
              => week_str = Some(PLAYOFF_WEEK_MAP[Val(stat.week)])
        /\ (stat.season_type = Some("POST")
                /\ Val(stat.week) \notin DOMAIN PLAYOFF_WEEK_MAP)
              => week_str = Some(ToString(Val(stat.week)))

\* A postseason record of week 19 got the key of the Division round, after
\* a postseason record of an unlabelled week got its number.
C17_Witness ==
    /\ LastEmitted
    /\ stat.season_type = Some("POST")
    /\ stat.week = Some(19)
    /\ week_str = Some("Division")
    /\ Len(results) = 2
    /\ results[1].stat.season_type = Some("POST")
    /\ results[1].stat.week = Some(23)

\* Every game-context field of the record is null.
NullContext(c) == \A f \in DOMAIN c : c[f] = None

\* C18: a record whose team code is not in TEAM_ABBREV_MAP yields a joined
\* record with a null franchise and null game-context fields, raises the
\* unmatched counter by one and leaves the matched counter as it is.
C18_UnknownTeamEmitted ==
    [][(/\ nstats' = nstats + 1
        /\ ~MissingFields(stat')
        /\ TeamCanonical(stat') = None)
       => (/\ Len(results') = Len(results) + 1
           /\ results'[Len(results')].teamCanonical = None
           /\ NullContext(results'[Len(results')].context)
           /\ unmatched' = unmatched + 1
           /\ matched' = matched)]_vars

\* The canonical franchise names.
FranchiseNames == { TEAM_ABBREV_MAP[k] : k \in DOMAIN TEAM_ABBREV_MAP }

\* C19: a code that is not in the alias table never stands for a franchise:
\* the franchise fields of every joined record are null or canonical
\* franchise names, never the raw code.
C19_NoRawCodeAsFranchise ==
    \A i \in DOMAIN results :
        /\ results[i].teamCanonical \in {None} \cup { Some(n) : n \in FranchiseNames }
        /\ results[i].opponentCanonical \in {None} \cup { Some(n) : n \in FranchiseNames }

\* C20: the list of unmatched samples never holds more than 10 entries,
\* however many records are unmatched.
C20_SampleIsCapped == Len(unmatched_examples) <= 10

\* More than 10 records were unmatched and the list holds 10 of them.
C20_Witness ==
    /\ unmatched > 10
    /\ Len(unmatched_examples) = 10

---------------------------------------------------------------------------
\* Properties of the counters of the join

\* What a pass appended to a list of results: the record or nothing.
Delta(old, new) == IF Len(new) = Len(old) THEN None ELSE Some(new[Len(new)])

\* C21: the counters do not influence the join: when two runs over the same
\* indexes consume the same statistical record, whatever their values of
\* matched, unmatched and unmatched_examples, both emit the same joined
\* record or both emit none.
C21_CountersDoNotInfluence ==
    [][twin' # twin
          => Delta(results, results') = Delta(twin.results, twin'.results)]_vars

\* The two runs emitted the same record although their counters and their
\* samples of unmatched records differ.
C21_Witness ==
    /\ twin.results # <<>>
    /\ results # <<>>
    /\ LastResult = twin.results[Len(twin.results)]
    /\ unmatched > twin.unmatched
    /\ Len(unmatched_examples) > Len(twin.unmatched_examples)
    /\ matched = twin.matched

---------------------------------------------------------------------------
\* Properties of the resolution: fallback and postseason weeks

\* The side of the record consumed last in the game resolved for it.
LastSideTier == SideTier(games[Val(game)], Val(TeamCanonical(stat)))

\* C22: when the own-team key of a record is not in the index and the
\* opponent key resolves to a game, the franchise of the record is neither
\* the home nor the away franchise of that game: such a record is matched
\* only by the substring test.
C22_FallbackNeverExact ==
    (LastEmitted /\ OwnEntry = None /\ OppEntry # None) =>
        /\ game = OppEntry
        /\ Some(Val(TeamCanonical(stat))) # games[Val(game)].homeTeamCanonical
        /\ Some(Val(TeamCanonical(stat))) # games[Val(game)].awayTeamCanonical
        /\ LastSideTier \notin {"exact_home", "exact_away"}

\* A record reached its game through the opponent key and was given the
\* home side by the substring test.
C22_Witness ==
    /\ LastEmitted /\ OwnEntry = None /\ OppEntry # None
    /\ LastSideTier = "fuzzy_home"
    /\ LastResult.context.isHome = Some(TRUE)

\* C23: two records of one franchise and one season with different
\* postseason week numbers do not resolve to the same game.
C23_DistinctPostWeeksDistinctGames ==
    [][(/\ nstats' = nstats + 1
        /\ LastEmitted /\ Emitted(stat')
        /\ stat.season_type = Some("POST")
        /\ stat'.season_type = Some("POST")
        /\ TeamCanonical(stat) = TeamCanonical(stat')
        /\ stat.season = stat'.season
        /\ stat.week # stat'.week
        /\ game # None)
       => game' # game]_vars

---------------------------------------------------------------------------
\* Properties of the matched joined record

\* The spread outcome of the record's own scores and spread.
TeamOutcome(c) ==
    LET margin == (Val(c.teamScore) - Val(c.opponentScore)) + Val(c.spread)
    IN CASE margin > 0 -> "COVERED"
         [] margin < 0 -> "LOST"
         [] margin = 0 -> "PUSH"

\* C24: in every matched joined record with a team score, an opponent score
\* and a spread, spreadResult is the outcome of the margin
\* (teamScore - opponentScore) + spread of the record itself, for home-side
\* and away-side records alike.
C24_SpreadResultIsTeamPerspective ==
    \A i \in DOMAIN results :
        LET c == results[i].context
        IN (/\ c.isHome # None
            /\ c.teamScore # None /\ c.opponentScore # None
            /\ c.spread # None)
           => c.spreadResult = Some(TeamOutcome(c))

\* C25: in a matched joined record the scores, the rest days and the bye
\* flag are those of the side isHome names in the resolved game, and
\* gameResult is W, L or T as the team's score is above, below or equal to
\* the opponent's, and null when a score is null.
C25_SideConsistency ==
    (LastEmitted /\ LastResult.context.isHome # None) =>
        LET c == LastResult.context
            g == games[Val(game)]
        IN /\ c.isHome = Some(TRUE) =>
                 /\ c.teamScore = g.homeScore
                 /\ c.opponentScore = g.awayScore
                 /\ c.restDays = g.homeRestDays
                 /\ c.isByeWeek = g.homeIsByeWeek
           /\ c.isHome = Some(FALSE) =>
                 /\ c.teamScore = g.awayScore
                 /\ c.opponentScore = g.homeScore
                 /\ c.restDays = g.awayRestDays
                 /\ c.isByeWeek = g.awayIsByeWeek
           /\ IF c.teamScore = None \/ c.opponentScore = None
              THEN c.gameResult = None
              ELSE /\ c.gameResult = Some("W")
                        <=> Val(c.teamScore) > Val(c.opponentScore)
                   /\ c.gameResult = Some("L")
                        <=> Val(c.teamScore) < Val(c.opponentScore)
                   /\ c.gameResult = Some("T")
                        <=> Val(c.teamScore) = Val(c.opponentScore)

\* After an away-side record of a lost game, a home-side record of a tied
\* game carries the home side's fields and the result T.
C25_Witness ==
    /\ LastEmitted
    /\ Len(results) = 2
    /\ results[1].context.isHome = Some(FALSE)
    /\ results[1].context.gameResult = Some("L")
    /\ LastResult.context.isHome = Some(TRUE)
    /\ LastResult.context.gameResult = Some("T")
    /\ LastResult.context.isByeWeek = games[Val(game)].homeIsByeWeek
    /\ games[Val(game)].awayIsByeWeek # games[Val(game)].homeIsByeWeek

\* C26: each pass of the join loop raises exactly one of matched and
\* unmatched by one, so matched + unmatched is the number of records
\* consumed, and the number of emitted records is at most that number.
C26_CounterPartition ==
    /\ [](matched + unmatched = nstats /\ Len(results) <= nstats)
    /\ [][nstats' = nstats + 1
            => \/ (matched' = matched + 1 /\ unmatched' = unmatched)
               \/ (matched' = matched /\ unmatched' = unmatched + 1)]_vars

\* The feed of two records is exhausted: one record was matched, one was
\* counted unmatched and not emitted.
C26_Witness ==
    /\ pc = "done"
    /\ nstats = 2
    /\ matched = 1 /\ unmatched = 1
    /\ Len(results) = 1

---------------------------------------------------------------------------
\* Properties of the importers: accounting and favourite coverage

\* The number of games with no spread.
Missing(gs) == Cardinality({ i \in DOMAIN gs : gs[i].spread = None })

\* The fields that tell which game a list entry is.
SameGame(g, h) ==
    /\ g.season = h.season /\ g.week = h.week
    /\ g.homeTeamCanonical = h.homeTeamCanonical
    /\ g.awayTeamCanonical = h.awayTeamCanonical
    /\ g.gameDate = h.gameDate

CodeNames(code, franchise) ==
    \/ code \in DOMAIN SPREADSPOKE_ABBREV_MAP
          /\ SPREADSPOKE_ABBREV_MAP[code] = franchise
    \/ code \in DOMAIN TEAM_ABBREV_MAP
          /\ TEAM_ABBREV_MAP[code] = franchise

\* C28: a Spreadspoke row with a spread, a date and both names in the name
\* table, whose favourite id is a code of its home or of its away
\* franchise, is given a home spread and indexed.
C28_FavouriteCoverage ==
    [][(/\ nrows' = nrows + 1
        /\ HasSpread(ss_row')
        /\ ParseDate(ss_row'.schedule_date) # None
        /\ HomeCanonical(ss_row') # None
        /\ AwayCanonical(ss_row') # None
        /\ \/ CodeNames(FavId(ss_row'), Val(HomeCanonical(ss_row')))
           \/ CodeNames(FavId(ss_row'), Val(AwayCanonical(ss_row'))))
       => SsKey(ss_row') \in DOMAIN ss_index']_vars

=============================================================================
